---- MODULE Spec2Model ----
(***************************************************************************)
(* Model of app.py: the site list loader, the per-page metadata            *)
(* extraction, the synthesis of failure records and the aggregation loop   *)
(* of scrape_data_to_json.  Python strings are sequences of code points,   *)
(* so that strip(), slicing, concatenation and the string comparison of    *)
(* the sort key are computed as Python computes them.                      *)
(***************************************************************************)
EXTENDS Integers, Sequences, FiniteSets, TLC

VARIABLES file, pc, sites, i, data, response, result, fetched, outcomes,
          clock, returned, arg, ret

vars == <<file, pc, sites, i, data, response, result, fetched, outcomes,
          clock, returned, arg, ret>>

\* ------------------------------------------------------------ bounds
MaxLines == 2
MaxClock == 2
MaxCalls == 2

\* ------------------------------------------------------------ strings
None == <<-1>>      \* Python None: differs from every str

UnknownSource == <<85, 110, 107, 110, 111, 119, 110, 32, 83, 111, 117, 114, 99, 101>>  \* "Unknown Source"
NoSummary == <<78, 111, 32, 114, 111, 98, 117, 115, 116, 32, 115, 117, 109, 109, 97, 114, 121, 32, 102, 111, 117, 110, 100, 46>>  \* "No robust summary found."
Ellipsis == <<46, 46, 46>>  \* "..."
UntitledPrefix == <<85, 110, 116, 105, 116, 108, 101, 100, 32, 80, 97, 103, 101, 58, 32>>  \* "Untitled Page: "
FailedPrefix == <<83, 99, 114, 97, 112, 105, 110, 103, 32, 70, 97, 105, 108, 101, 100, 32, 102, 111, 114, 58, 32>>  \* "Scraping Failed for: "
ErrorPrefix == <<67, 111, 117, 108, 100, 32, 110, 111, 116, 32, 114, 101, 97, 99, 104, 32, 111, 114, 32, 112, 97, 114, 115, 101, 32, 115, 105, 116, 101, 46, 32, 69, 114, 114, 111, 114, 58, 32>>  \* "Could not reach or parse site. Error: "
SystemError == <<83, 121, 115, 116, 101, 109, 32, 69, 114, 114, 111, 114>>  \* "System Error"
ErrorSource == <<69, 114, 114, 111, 114>>  \* "Error"
ErrorImage == <<104, 116, 116, 112, 115, 58, 47, 47, 112, 108, 97, 99, 101, 104, 111, 108, 100, 46, 99, 111, 47, 49, 53, 48, 120, 49, 48, 48, 47, 65, 48, 65, 48, 65, 48, 47, 70, 70, 70, 70, 70, 70, 63, 116, 101, 120, 116, 61, 69, 114, 114, 111, 114>>  \* "https://placehold.co/150x100/A0A0A0/FFFFFF?text=Error"
NoSitesMsg == <<78, 111, 32, 115, 105, 116, 101, 115, 32, 99, 111, 110, 102, 105, 103, 117, 114, 101, 100, 32, 105, 110, 32, 115, 105, 116, 101, 115, 46, 116, 120, 116>>  \* "No sites configured in sites.txt"

Min(S) == CHOOSE x \in S : \A y \in S : x <= y
Max(S) == CHOOSE x \in S : \A y \in S : x >= y

\* str.strip(): leading and trailing whitespace removed
IsSpace(c) == c \in {9, 10, 11, 12, 13, 32}
Strip(s) ==
    LET keep == {k \in 1..Len(s) : ~IsSpace(s[k])}
    IN  IF keep = {} THEN <<>> ELSE SubSeq(s, Min(keep), Max(keep))

\* Python's str < str: code point by code point, a proper prefix is smaller
RECURSIVE StrLess(_, _)
StrLess(a, b) ==
    IF b = <<>> THEN FALSE
    ELSE IF a = <<>> THEN TRUE
    ELSE IF Head(a) # Head(b) THEN Head(a) < Head(b)
    ELSE StrLess(Tail(a), Tail(b))

\* sub in s
Contains(s, sub) ==
    \E k \in 0..(Len(s) - Len(sub)) : SubSeq(s, k + 1, k + Len(sub)) = sub

\* ------------------------------------------------------------ datetime
\* A datetime of 2024-01-15, hour:00:00.micro, with a UTC offset of off hours
\* when aware.
DateTime(h, us, off, aware) == [hour |-> h, micro |-> us, off |-> off, aware |-> aware]

Dig2(n) == <<48 + (n \div 10), 48 + (n % 10)>>
Dig6(n) == <<48 + (n \div 100000), 48 + ((n \div 10000) % 10), 48 + ((n \div 1000) % 10),
             48 + ((n \div 100) % 10), 48 + ((n \div 10) % 10), 48 + (n % 10)>>

\* datetime.isoformat(): YYYY-MM-DDTHH:MM:SS[.ffffff][+HH:MM]
isoformat(dt) ==
    <<50, 48, 50, 52, 45, 48, 49, 45, 49, 53, 84>> \o Dig2(dt.hour) \o <<58, 48, 48, 58, 48, 48>>
    \o (IF dt.micro # 0 THEN <<46>> \o Dig6(dt.micro) ELSE <<>>)
    \o (IF dt.aware
        THEN <<(IF dt.off >= 0 THEN 43 ELSE 45)>>
             \o Dig2(IF dt.off >= 0 THEN dt.off ELSE -dt.off) \o <<58, 48, 48>>
        ELSE <<>>)

\* datetime.now(timezone.utc), read off the system clock
Now(c) == DateTime(12 + (c \div 2), (c % 2) * 500000, 0, TRUE)

\* The instant an ISO-8601 string of an aware datetime denotes: the seconds
\* from 2024-01-15T00:00:00+00:00 and the microseconds of the second.
Num2(s, k) == (s[k] - 48) * 10 + (s[k + 1] - 48)
IsoInstant(s) ==
    LET frac == s[20] = 46
        us   == IF frac
                THEN (s[21] - 48) * 100000 + (s[22] - 48) * 10000 + (s[23] - 48) * 1000
                     + (s[24] - 48) * 100 + (s[25] - 48) * 10 + (s[26] - 48)
                ELSE 0
        z    == IF frac THEN 27 ELSE 20
        offm == Num2(s, z + 1) * 60 + Num2(s, z + 4)
        secs == Num2(s, 12) * 3600 + Num2(s, 15) * 60 + Num2(s, 18)
                - (IF s[z] = 45 THEN -offm ELSE offm) * 60
    IN  [secs |-> secs, us |-> us]
NotBefore(a, b) == a.secs > b.secs \/ (a.secs = b.secs /\ a.us >= b.us)

\* ------------------------------------------------------------ parsed HTML
\* What soup.find(...) gives: no tag, a tag without the attribute (for
\* <title>: .string is None), or a tag with the attribute's value.
NoTag == [found |-> FALSE, has |-> FALSE, content |-> <<>>]
NoAttr == [found |-> TRUE, has |-> FALSE, content |-> <<>>]
Tag(c) == [found |-> TRUE, has |-> TRUE, content |-> c]

\* The raw string of a date tag, by what dateutil's parser makes of it.
RawEmpty == [kind |-> "empty", dt |-> DateTime(0, 0, 0, FALSE)]
RawGarbage == [kind |-> "garbage", dt |-> DateTime(0, 0, 0, FALSE)]
RawHuge == [kind |-> "huge", dt |-> DateTime(0, 0, 0, FALSE)]
RawDate(dt) == [kind |-> "date", dt |-> dt]

\* A date tag: not in the page, in the page without the attribute read
\* (tag.get gives None), or with the raw string
NoDateTag == [found |-> FALSE, has |-> FALSE, content |-> RawEmpty]
DateNoAttr == [found |-> TRUE, has |-> FALSE, content |-> RawEmpty]
DateTag(raw) == [found |-> TRUE, has |-> TRUE, content |-> raw]

\* dateutil.parser.parse(date_str): the datetime, ParserError for a string in
\* no known format, OverflowError for a value beyond the platform's C integer.
dateparser_parse(raw) ==
    CASE raw.kind = "date" -> [exc |-> "none", dt |-> raw.dt]
      [] raw.kind = "huge" -> [exc |-> "OverflowError", dt |-> raw.dt]
      [] OTHER -> [exc |-> "ParserError", dt |-> raw.dt]

\* ------------------------------------------------------------ extract_date
\* date_tags, in the order they are tried; soup.date[k] is soup.find of the k-th
date_tags == <<"article:published_time", "date", "time">>

RECURSIVE DateLoop(_, _, _)
DateLoop(soup, k, now) ==
    IF k > Len(date_tags) THEN [exc |-> "none", dt |-> now]
    ELSE LET tag == soup.date[k]
         IN  IF tag.found /\ tag.has /\ tag.content.kind # "empty"
             THEN LET r == dateparser_parse(tag.content)
                  IN  IF r.exc = "none"
                      THEN [exc |-> "none",
                            dt |-> IF r.dt.aware THEN r.dt
                                   ELSE DateTime(r.dt.hour, r.dt.micro, 0, TRUE)]
                      ELSE IF r.exc \in {"ParserError", "TypeError"}
                      THEN DateLoop(soup, k + 1, now)
                      ELSE [exc |-> r.exc, dt |-> now]
             ELSE DateLoop(soup, k + 1, now)

\* extract_date(soup): the datetime returned, or the exception that leaves it
extract_date(soup, now) == DateLoop(soup, 1, now)

\* ------------------------------------------------------------ the fields
DescLimit == 200

\* 1. Title: soup.title.string.strip() raises AttributeError on a None string
TitleRaises(soup) == soup.title.found /\ ~soup.title.has
PageTitle(soup, url) ==
    IF soup.title.found THEN Strip(soup.title.content) ELSE UntitledPrefix \o url

\* 2. Author
Author(soup) ==
    IF soup.author_meta.found /\ soup.author_meta.has
    THEN Strip(soup.author_meta.content)
    ELSE IF soup.og_site_name.found /\ soup.og_site_name.has
    THEN Strip(soup.og_site_name.content)
    ELSE UnknownSource

\* 3. Description/Summary
FirstPAtLimit(t) == Len(t) >= DescLimit
FirstPTooLong(t) == Len(t) > DescLimit
FirstPSummary(text) ==
    LET t == Strip(text)
    IN  IF FirstPTooLong(t) THEN SubSeq(t, 1, DescLimit) \o Ellipsis ELSE t

MetaDescription(soup) ==
    IF soup.og_description.found /\ soup.og_description.has
    THEN Strip(soup.og_description.content)
    ELSE IF soup.description_meta.found /\ soup.description_meta.has
    THEN Strip(soup.description_meta.content)
    ELSE <<>>

Description(soup) ==
    LET description == MetaDescription(soup)
    IN  IF description # <<>> THEN description
        ELSE IF soup.first_p.found THEN FirstPSummary(soup.first_p.content)
        ELSE NoSummary

\* 4. Image URL
ImageUrl(soup) ==
    IF soup.og_image.found /\ soup.og_image.has THEN Strip(soup.og_image.content) ELSE None

\* ------------------------------------------------------------ the records
\* The dictionary appended after a successful extraction
SourceNameDefault(author) == UnknownSource
SuccessSourceName(author) == author
SuccessRecord(url, soup, dt) ==
    LET author == Author(soup)
    IN  [title |-> PageTitle(soup, url),
         url |-> url,
         author |-> author,
         description |-> Description(soup),
         image_url |-> ImageUrl(soup),
         pub_date |-> isoformat(dt),
         source_name |-> SuccessSourceName(author)]

\* The try body for one site: the exception that leaves it, or the record
Extract(url, soup, now) ==
    IF TitleRaises(soup) THEN [exc |-> "AttributeError", rec |-> <<>>]
    ELSE LET d == extract_date(soup, now)
         IN  IF d.exc # "none" THEN [exc |-> d.exc, rec |-> <<>>]
             ELSE [exc |-> "none", rec |-> SuccessRecord(url, soup, d.dt)]

\* The dictionary appended on requests.exceptions.RequestException e, text = str(e)
FailureDescriptionFixed(text) == ErrorPrefix
FailureDescription(text) == ErrorPrefix \o text
FailureRecord(url, text, now) ==
    [title |-> FailedPrefix \o url,
     url |-> url,
     author |-> SystemError,
     description |-> FailureDescription(text),
     image_url |-> ErrorImage,
     pub_date |-> isoformat(now),
     source_name |-> ErrorSource]

\* ------------------------------------------------------------ the sort
\* data.sort(key=pub_date, reverse=True): a stable sort, so a record goes
\* behind every record already placed whose key is not smaller than its own.
PlacedBeforeStrict(placed, rec) == StrLess(rec.pub_date, placed.pub_date)
PlacedBefore(placed, rec) == ~StrLess(placed.pub_date, rec.pub_date)

RECURSIVE InsertDesc(_, _)
InsertDesc(sorted, rec) ==
    IF sorted = <<>> THEN <<rec>>
    ELSE IF PlacedBefore(Head(sorted), rec)
    THEN <<Head(sorted)>> \o InsertDesc(Tail(sorted), rec)
    ELSE <<rec>> \o sorted

RECURSIVE SortFrom(_, _)
SortFrom(sorted, rest) ==
    IF rest = <<>> THEN sorted ELSE SortFrom(InsertDesc(sorted, Head(rest)), Tail(rest))

SortData(d) == SortFrom(<<>>, d)

\* ------------------------------------------------------------ get_site_list
Missing == [exists |-> FALSE, lines |-> <<>>]
TextFile(lines) == [exists |-> TRUE, lines |-> lines]

KeepLine(line) == Strip(line) # <<>> /\ Head(Strip(line)) # 35

RECURSIVE StripLines(_)
StripLines(lines) ==
    IF lines = <<>> THEN <<>>
    ELSE (IF KeepLine(Head(lines)) THEN <<Strip(Head(lines))>> ELSE <<>>)
         \o StripLines(Tail(lines))

get_site_list(f) == IF f.exists THEN StripLines(f.lines) ELSE <<>>

\* The document returned when no site is configured
NoSitesEmptyList == <<>>
NoSitesDocument == <<[error |-> NoSitesMsg]>>

\* ------------------------------------------------------------ inputs
SeqsUpTo(S, n) == UNION {[1..k -> S] : k \in 0..n}

\* lines of sites.txt: "a\n", " b \n", "\n", "  \n", "#c\n", " #c\n"
LineA == <<97, 10>>
LineB == <<32, 98, 32, 10>>
Blank == <<10>>
BlankSp == <<32, 32, 10>>
Comment == <<35, 99, 10>>
CommentSp == <<32, 35, 99, 10>>

Files == {Missing} \cup {TextFile(l) : l \in SeqsUpTo({LineA, LineB, Blank, CommentSp}, MaxLines)}
EmptyFiles == {Missing} \cup {TextFile(l) : l \in SeqsUpTo({Blank, BlankSp, Comment, CommentSp}, MaxLines)}

EmptySoup ==
    [title |-> NoTag, author_meta |-> NoTag, og_site_name |-> NoTag,
     description_meta |-> NoTag, og_description |-> NoTag, first_p |-> NoTag,
     og_image |-> NoTag, date |-> <<NoDateTag, NoDateTag, NoDateTag>>]

\* 10:00+05:00, 08:00+00:00 and the naive 08:00
DateEast == DateTime(10, 0, 5, TRUE)
DateUtc == DateTime(8, 0, 0, TRUE)
DateNaive == DateTime(8, 0, 0, FALSE)

\* pages the sites answer with
MainSoups ==
    {[EmptySoup EXCEPT !.title = t, !.date[1] = d] :
        t \in {NoTag, Tag(<<72, 105>>)},
        d \in {NoDateTag, DateTag(RawDate(DateEast)), DateTag(RawDate(DateUtc)),
               DateTag(RawDate(DateNaive))}}
    \cup {[EmptySoup EXCEPT !.author_meta = a, !.date[2] = DateTag(RawDate(DateUtc)),
                            !.og_image = Tag(<<47, 105, 46, 112, 110, 103>>)] :
        a \in {Tag(<<65, 108>>), Tag(<<>>)}}
    \cup {[EmptySoup EXCEPT !.title = NoAttr],
          [EmptySoup EXCEPT !.date[1] = DateTag(RawHuge), !.date[2] = DateTag(RawDate(DateUtc))]}

\* str(e) of the RequestException: "timed out", "404 Client Error"
Reasons == {<<116, 105, 109, 101, 100, 32, 111, 117, 116>>,
            <<52, 48, 52, 32, 67, 108, 105, 101, 110, 116, 32, 69, 114, 114, 111, 114>>}

NoResponse == [ok |-> FALSE, soup |-> EmptySoup, text |-> <<>>]
Responses ==
    {[ok |-> TRUE, soup |-> s, text |-> <<>>] : s \in MainSoups}
    \cup {[ok |-> FALSE, soup |-> EmptySoup, text |-> t] : t \in Reasons}

\* pages for extract_date: every kind of tag at each of the three places
DateKinds(k) ==
    {NoDateTag, DateNoAttr, DateTag(RawEmpty), DateTag(RawGarbage), DateTag(RawHuge),
     DateTag(RawDate(DateTime(k, 0, 5, TRUE))), DateTag(RawDate(DateTime(k + 3, 0, 0, FALSE)))}
DateSoups ==
    {[EmptySoup EXCEPT !.date = <<a, b, c>>] :
        a \in DateKinds(1), b \in DateKinds(2), c \in DateKinds(3)}

\* pages for the author and the description
Text(n) == [k \in 1..n |-> 97 + (k % 26)]
FieldSoups ==
    {[EmptySoup EXCEPT !.author_meta = am, !.og_site_name = sn, !.og_description = od,
                       !.description_meta = dm, !.first_p = fp] :
        am \in {NoTag, NoAttr, Tag(<<>>), Tag(<<32>>), Tag(<<65, 108>>)},
        sn \in {NoTag, Tag(<<83, 105, 116, 101>>)},
        od \in {NoTag, NoAttr, Tag(<<32, 32>>), Tag(<<87, 111, 114, 108, 100>>)},
        dm \in {NoTag, Tag(<<68, 101, 115, 99>>)},
        fp \in {NoTag, Tag(<<>>), Tag(<<97, 32, 32, 10, 98>>), Tag(Text(DescLimit)),
                Tag(<<32, 10>> \o Text(DescLimit) \o <<32>>), Tag(Text(DescLimit + 1)),
                Tag(Text(650))}}

\* ------------------------------------------------------------ one request
Init ==
    /\ file \in Files
    /\ pc = "idle"
    /\ sites = <<>>
    /\ i = 1
    /\ data = <<>>
    /\ response = NoResponse
    /\ result = <<>>
    /\ fetched = <<>>
    /\ outcomes = <<>>
    /\ clock = 0
    /\ returned = <<>>
    /\ arg = EmptySoup
    /\ ret = <<>>

\* scrape_data_to_json is entered: the site list is read, and without sites the
\* function returns at once
Call ==
    /\ pc = "idle"
    /\ sites' = get_site_list(file)
    /\ data' = <<>>
    /\ i' = 1
    /\ fetched' = <<>>
    /\ outcomes' = <<>>
    /\ IF sites' = <<>>
       THEN pc' = "done" /\ result' = NoSitesDocument
       ELSE pc' = "loop" /\ result' = <<>>
    /\ UNCHANGED <<file, response, clock, returned, arg, ret>>

\* requests.get(url) and raise_for_status() for the i-th site; time passes
Get ==
    /\ pc = "loop"
    /\ i <= Len(sites)
    /\ fetched' = Append(fetched, i)
    /\ response' \in Responses
    /\ clock' \in {c \in {clock, clock + 1} : c <= MaxClock}
    /\ pc' = "got"
    /\ UNCHANGED <<file, sites, i, data, result, outcomes, returned, arg, ret>>

\* the rest of the try body ran through: the record is appended
AppendRecord ==
    /\ pc = "got"
    /\ response.ok
    /\ LET e == Extract(sites[i], response.soup, Now(clock))
       IN  /\ e.exc = "none"
           /\ data' = Append(data, e.rec)
    /\ outcomes' = Append(outcomes, [kind |-> "ok", text |-> <<>>])
    /\ i' = i + 1
    /\ pc' = "loop"
    /\ response' = NoResponse
    /\ UNCHANGED <<file, sites, result, fetched, clock, returned, arg, ret>>

\* the try body raised what is no RequestException: no except clause takes it
\* and it leaves scrape_data_to_json
RaiseOut ==
    /\ pc = "got"
    /\ response.ok
    /\ Extract(sites[i], response.soup, Now(clock)).exc # "none"
    /\ pc' = "raised"
    /\ response' = NoResponse
    /\ UNCHANGED <<file, sites, i, data, result, fetched, outcomes, clock, returned, arg, ret>>

\* a handler that tries the same site again instead of recording the failure
AppendFailureRetry ==
    /\ pc = "got"
    /\ ~response.ok
    /\ pc' = "loop"
    /\ response' = NoResponse
    /\ UNCHANGED <<file, sites, i, data, result, fetched, outcomes, clock, returned, arg, ret>>

\* except requests.exceptions.RequestException: the failure record, continue
AppendFailure ==
    /\ pc = "got"
    /\ ~response.ok
    /\ data' = Append(data, FailureRecord(sites[i], response.text, Now(clock)))
    /\ outcomes' = Append(outcomes, [kind |-> "RequestException", text |-> response.text])
    /\ i' = i + 1
    /\ pc' = "loop"
    /\ response' = NoResponse
    /\ UNCHANGED <<file, sites, result, fetched, clock, returned, arg, ret>>

\* after the loop: data.sort(...) and return.  data keeps the order of
\* appending, result is the list as sorted and returned; outcomes[k] tells
\* which branch appended data[k], and with which str(e).
Finish ==
    /\ pc = "loop"
    /\ i > Len(sites)
    /\ result' = SortData(data)
    /\ pc' = "done"
    /\ UNCHANGED <<file, sites, i, data, response, fetched, outcomes, clock, returned, arg, ret>>

Next == Call \/ Get \/ AppendRecord \/ RaiseOut \/ AppendFailure \/ Finish

Spec == Init /\ [][Next]_vars

\* ------------------------------------------------------------ repeated requests
\* The endpoint is requested again and again while no site is configured;
\* returned is the list of the documents returned so far.
InitEmpty ==
    /\ file \in EmptyFiles
    /\ pc = "idle"
    /\ sites = <<>>
    /\ i = 1
    /\ data = <<>>
    /\ response = NoResponse
    /\ result = <<>>
    /\ fetched = <<>>
    /\ outcomes = <<>>
    /\ clock = 0
    /\ returned = <<>>
    /\ arg = EmptySoup
    /\ ret = <<>>

NextRequest ==
    /\ pc = "done"
    /\ Len(returned) < MaxCalls
    /\ returned' = Append(returned, result)
    /\ pc' = "idle"
    /\ result' = <<>>
    /\ UNCHANGED <<file, sites, i, data, response, fetched, outcomes, clock, arg, ret>>

NextEmpty == Call \/ NextRequest

SpecEmpty == InitEmpty /\ [][NextEmpty]_vars

\* ------------------------------------------------------------ extract_date alone
InitDate ==
    /\ arg \in DateSoups
    /\ clock \in 0..MaxClock
    /\ pc = "idle"
    /\ ret = <<>>
    /\ file = Missing
    /\ sites = <<>>
    /\ i = 1
    /\ data = <<>>
    /\ response = NoResponse
    /\ result = <<>>
    /\ fetched = <<>>
    /\ outcomes = <<>>
    /\ returned = <<>>

CallExtractDate ==
    /\ pc = "idle"
    /\ ret' = extract_date(arg, Now(clock))
    /\ pc' = "returned"
    /\ UNCHANGED <<file, sites, i, data, response, result, fetched, outcomes, clock, returned, arg>>

SpecDate == InitDate /\ [][CallExtractDate]_vars

\* ------------------------------------------------------------ author and description alone
InitFields ==
    /\ arg \in FieldSoups
    /\ clock = 0
    /\ pc = "idle"
    /\ ret = <<>>
    /\ file = Missing
    /\ sites = <<>>
    /\ i = 1
    /\ data = <<>>
    /\ response = NoResponse
    /\ result = <<>>
    /\ fetched = <<>>
    /\ outcomes = <<>>
    /\ returned = <<>>

CallFields ==
    /\ pc = "idle"
    /\ ret' = [author |-> Author(arg), description |-> Description(arg)]
    /\ pc' = "returned"
    /\ UNCHANGED <<file, sites, i, data, response, result, fetched, outcomes, clock, returned, arg>>

SpecFields == InitFields /\ [][CallFields]_vars

\* ------------------------------------------------------------ properties
Count(seq, x) == Cardinality({k \in 1..Len(seq) : seq[k] = x})
Urls(recs) == [k \in 1..Len(recs) |-> recs[k].url]
SameRecords(a, b) ==
    /\ Len(a) = Len(b)
    /\ \A k \in 1..Len(a) : Count(a, a[k]) = Count(b, a[k])
Returned == pc = "done" /\ sites # <<>>

\* C1: for a non-empty site list the run completes and returns exactly one
\* record per configured URL, whatever happens at each site; no exception
\* leaves the loop.
C1_OneRecordPerSite ==
    /\ pc # "raised"
    /\ Returned =>
          /\ Len(result) = Len(sites)
          /\ \A k \in 1..Len(sites) : Count(Urls(result), sites[k]) = Count(sites, sites[k])

\* C2: the returned list is ordered by publication instant, newest first, also
\* across different UTC offsets.
C2_NewestInstantFirst ==
    Returned =>
        \A k \in 1..(Len(result) - 1) :
            NotBefore(IsoInstant(result[k].pub_date), IsoInstant(result[k + 1].pub_date))

\* C3: records with equal pub_date are returned in the order of their sites in
\* the configured list (data is in that order, the sort keeps it among ties).
C3_TiesKeepConfiguredOrder ==
    /\ \A k \in 1..Len(data) : data[k].url = sites[k]
    /\ Returned =>
          /\ SameRecords(result, data)
          /\ \A j, k \in 1..Len(result) :
                (j < k /\ result[j].pub_date = result[k].pub_date) =>
                    \E p, q \in 1..Len(data) :
                        p < q /\ data[p] = result[j] /\ data[q] = result[k]
C3_Witness ==
    /\ Returned
    /\ Len(result) >= 2
    /\ result[1].pub_date = result[2].pub_date
    /\ result[1].url # result[2].url

\* C4 as stated: the record of a RequestException has status fetchFailed, the
\* sentinel source name, the configured URL and the failure text.
C4_FailureRecordHasStatus ==
    \A k \in 1..Len(data) :
        outcomes[k].kind = "RequestException" =>
            /\ "status" \in DOMAIN data[k]
            /\ data[k].status = "fetchFailed"
            /\ data[k].source_name = ErrorSource
            /\ data[k].url = sites[k]
            /\ Contains(data[k].description, outcomes[k].text)

\* C4 as amended: on a RequestException one record is appended behind the
\* unchanged earlier ones, with the seven keys of every record and no status
\* key, title "Scraping Failed for: <url>", author "System Error", source_name
\* "Error", the configured URL and a description that contains str(e); the
\* loop goes on with the next site.
C4_FailureRecord ==
    [][(pc = "got" /\ ~response.ok) =>
          /\ Len(data') = Len(data) + 1
          /\ SubSeq(data', 1, Len(data)) = data
          /\ LET r == data'[Len(data')]
             IN  /\ DOMAIN r = {"title", "url", "author", "description", "image_url",
                                "pub_date", "source_name"}
                 /\ r.title = FailedPrefix \o sites[i]
                 /\ r.url = sites[i]
                 /\ r.author = SystemError
                 /\ r.source_name = ErrorSource
                 /\ Contains(r.description, response.text)
                 /\ Len(r.description) > Len(ErrorPrefix)
          /\ i' = i + 1
          /\ pc' = "loop"]_vars
C4_Witness ==
    /\ Returned
    /\ Len(data) = 2
    /\ outcomes[1].kind = "ok"
    /\ outcomes[2].kind = "RequestException"

\* C5: without configured sites a call fetches nothing and returns the list
\* of the one error descriptor, the same document as the call before it.
C5_NoSitesDocument ==
    [][(pc = "idle" /\ pc' # "idle" /\ get_site_list(file) = <<>>) =>
          /\ pc' = "done"
          /\ result' = <<[error |-> NoSitesMsg]>>
          /\ fetched' = <<>>
          /\ returned # <<>> => result' = returned[Len(returned)]]_vars
C5_Witness ==
    /\ pc = "done"
    /\ Len(returned) >= 2
    /\ file.exists
    /\ file.lines # <<>>

\* C6: extract_date never raises; it returns the parsed value of the first of
\* the three candidates whose string parses, and the current instant if none
\* does.
Parses(tag) == tag.found /\ tag.has /\ tag.content.kind = "date"
C6_FirstParsingCandidate ==
    pc = "returned" =>
        LET ok == {k \in 1..3 : Parses(arg.date[k])}
        IN  /\ ret.exc = "none"
            /\ ok = {} => ret.dt = Now(clock)
            /\ ok # {} =>
                  LET d == arg.date[Min(ok)].content.dt
                  IN  /\ ret.dt.hour = d.hour
                      /\ ret.dt.micro = d.micro
                      /\ ret.dt.aware
                      /\ ret.dt.off = (IF d.aware THEN d.off ELSE 0)

\* C7: the first strategy with a non-empty value wins: an empty og:description
\* gives way to meta[name=description], an empty meta[name=author] to
\* og:site_name, and the author is never the empty string.
NonEmpty(tag) == tag.found /\ tag.has /\ Strip(tag.content) # <<>>
EmptyValue(tag) == tag.found /\ tag.has /\ Strip(tag.content) = <<>>
C7_FirstNonEmptyWins ==
    pc = "returned" =>
        /\ (EmptyValue(arg.og_description) /\ NonEmpty(arg.description_meta)) =>
              ret.description = Strip(arg.description_meta.content)
        /\ (EmptyValue(arg.author_meta) /\ NonEmpty(arg.og_site_name)) =>
              ret.author = Strip(arg.og_site_name.content)
        /\ ret.author # <<>>

\* C8 as stated: every returned record has source_name equal to author.
C8_SourceNameIsAuthor ==
    Returned => \A k \in 1..Len(result) : result[k].source_name = result[k].author

\* C8 as amended: a record of a successful extraction has source_name equal to
\* its author; a record of a RequestException has author "System Error" and
\* source_name "Error"; the returned list holds just these records.
C8_SourceNameByOutcome ==
    /\ Len(outcomes) = Len(data)
    /\ \A k \in 1..Len(data) :
          /\ outcomes[k].kind = "ok" => data[k].source_name = data[k].author
          /\ outcomes[k].kind = "RequestException" =>
                data[k].author = SystemError /\ data[k].source_name = ErrorSource
    /\ Returned => SameRecords(result, data)
C8_Witness ==
    /\ Returned
    /\ \E j, k \in 1..Len(data) :
          /\ outcomes[j].kind = "ok"
          /\ data[j].author = <<65, 108>>
          /\ outcomes[k].kind = "RequestException"

\* C9 as stated: a body text of more than 500 characters is cut to its first
\* 500 characters and the ellipsis, a text of up to 500 is not cut.
C9_CutAt500 ==
    (pc = "returned" /\ ~arg.og_description.found /\ ~arg.description_meta.found
        /\ arg.first_p.found) =>
        LET t == Strip(arg.first_p.content)
        IN  ret.description =
                (IF Len(t) > 500 THEN SubSeq(t, 1, 500) \o <<46, 46, 46>> ELSE t)

\* C9 as amended: when no description meta tag is present and the page has a
\* <p>, the description is the stripped text of the first <p>, cut to its
\* first 200 characters and "..." when longer than 200.
C9_CutAt200 ==
    (pc = "returned" /\ ~arg.og_description.found /\ ~arg.description_meta.found
        /\ arg.first_p.found) =>
        LET t == Strip(arg.first_p.content)
        IN  ret.description =
                (IF Len(t) > 200 THEN SubSeq(t, 1, 200) \o <<46, 46, 46>> ELSE t)
C9_Witness ==
    /\ pc = "returned"
    /\ ~arg.og_description.found
    /\ ~arg.description_meta.found
    /\ arg.first_p.found
    /\ Len(arg.first_p.content) = 650
    /\ Len(ret.description) = 203

\* C10: a GET is issued for the next entry of the list only, each entry once,
\* and only when the records of all entries before it have been appended.
C10_OneGetPerSiteInOrder ==
    [][fetched' # fetched =>
          /\ fetched' = Append(fetched, Len(fetched) + 1)
          /\ Len(fetched') <= Len(sites)
          /\ Len(data) = Len(fetched)
          /\ \A k \in 1..Len(data) : data[k].url = sites[k]]_vars
C10_Witness ==
    /\ Returned
    /\ fetched = <<1, 2>>
    /\ outcomes[1].kind = "RequestException"

====
